---- MODULE Spec2Model ----
(***************************************************************************)
(* A model of two cores of the repository:                                 *)
(*   - consensus/core/src/threshold_clock.rs : ThresholdClock              *)
(*   - crates/sui-bridge/src/action_executor.rs : BridgeActionExecutor     *)
(* The two cores share no state; each has its own specification            *)
(* (SpecClock, SpecClockBulk for the clock, SpecExecutor for the bridge).  *)
(***************************************************************************)
EXTENDS Integers, Sequences, FiniteSets, Bags, TLC

VARIABLES
    \* ---- consensus: ThresholdClock ----
    committee,        \* context.committee: stake of every authority
    overflow_checks,  \* build profile: are integer overflows checked (panic) or wrapping
    clock,            \* the ThresholdClock struct
    ev,               \* the last call made on the clock, its argument and its return value
    seq_clock,        \* a second clock fed the same refs one add_block call at a time
    seq_pending,      \* refs of the last add_blocks batch not yet fed to seq_clock
    \* ---- bridge: BridgeActionExecutor ----
    store,            \* pending-action store (the write-ahead log): digests of the pending actions
    submits,          \* number of calls of submit_to_executor so far
    signing_queue,    \* channel of BridgeActionExecutionWrapper into the signing loop
    sign_tasks,       \* bag of the spawned request_signature tasks
    sigs,             \* authority aggregator: are the signatures for an action sufficient
    execution_queue,  \* channel of certificates into the execution loop
    exec,             \* the execution loop: where it is, the certificate and transaction in flight
    gas_object_ref,   \* the loop's gas object reference (its version)
    retry_tasks,      \* bag of the detached tasks that send a certificate again
    chain,            \* the chain: the gas object's version and owner, the executed transactions
    onchain,          \* per action, transactions executed on chain with Success for it
    xev,              \* the last result handled by the execution loop
    loops,            \* is the sender returned by run() alive, is the signing loop running
    \* ---- consensus: Block, BlockRef ----
    blk,              \* a Block, with the cell of its memoized digest
    wire,             \* the serialized bytes of the block
    decoded,          \* the block deserialized from the bytes
    bev,              \* the digests returned by the calls of digest()
    cmp_ev            \* the last comparison of two BlockRefs and its results

clock_vars == <<committee, overflow_checks, clock, ev, seq_clock, seq_pending>>

executor_vars == <<store, submits, signing_queue, sign_tasks, sigs, execution_queue,
                   exec, gas_object_ref, retry_tasks, chain, onchain, xev, loops>>

block_vars == <<blk, wire, decoded, bev, cmp_ev>>

vars == <<clock_vars, executor_vars, block_vars>>

(***************************************************************************)
(* Bounds of the model and constants of the program                        *)
(***************************************************************************)
\* Round = u32 (block.rs:18). TLC's integers are 32-bit signed, so the u32
\* value r is written r - 2^31 (same order, same successor): round 0 is
\* RoundZero and round 2^32 - 1 is RoundMax.
RoundMax == 2147483647

RoundZero == (0 - RoundMax) - 1

\* size of the committee of Context::new_for_test
NumAuthorities == 4

\* rounds 0..RoundSpan and 2^32-1-RoundSpan..2^32-1 are explored
RoundSpan == 1

\* stake of an authority is 1 or HeavyStake
HeavyStake == 7

\* instants are 0..MaxTime
MaxTime == 1

\* longest batch handed to add_blocks
MaxBatch == 2

Authorities == 0..(NumAuthorities - 1)

Digests == {"d0", "d1"}

RoundValues ==
    {RoundZero + k : k \in 0..RoundSpan} \cup {RoundMax - k : k \in 0..RoundSpan}

StakeValues == {1, HeavyStake}


BlockRefs == [round : RoundValues, author : Authorities, digest : Digests]

None == [some |-> FALSE, value |-> RoundZero]

Some(v) == [some |-> TRUE, value |-> v]

(***************************************************************************)
(* Committee and stake aggregator (consensus_config, stake_aggregator.rs)  *)
(***************************************************************************)
RECURSIVE SumStake(_, _)
SumStake(c, S) ==
    IF S = {} THEN 0
    ELSE LET a == CHOOSE x \in S : TRUE IN c[a] + SumStake(c, S \ {a})

\* smallest stake >= ceil((2 * total_stake + 1) / 3)
quorum_threshold(total) == (2 * total + 1 + 2) \div 3

\* Committee::new: the stakes, their sum and the threshold derived from it
Committee_new(stakes) ==
    LET total == SumStake(stakes, DOMAIN stakes) IN
    [stake |-> stakes,
     total_stake |-> total,
     quorum_threshold |-> quorum_threshold(total)]

\* authorities are listed by non-increasing stake (the code never looks at
\* the order of the indices)
Committees ==
    {Committee_new(s) : s \in {c \in [Authorities -> StakeValues] :
                                  \A i \in Authorities : i > 0 => c[i - 1] >= c[i]}}

StakeAggregator_new == [votes |-> {}, stake |-> 0]

StakeAggregator_clear(agg) == [votes |-> {}, stake |-> 0]

\* add(author, committee) -> bool: the aggregator after the call and the value returned
StakeAggregator_add(agg, author, c) ==
    LET after == IF author \in agg.votes
                 THEN agg
                 ELSE [votes |-> agg.votes \cup {author},
                       stake |-> agg.stake + c.stake[author]]
    IN [agg |-> after, reached |-> after.stake >= c.quorum_threshold]

(***************************************************************************)
(* ThresholdClock (threshold_clock.rs)                                     *)
(***************************************************************************)
ThresholdClock_new(r) ==
    [aggregator |-> StakeAggregator_new,
     round |-> r,
     last_quorum_ts |-> 0,
     panicked |-> FALSE]

get_round(clk) == clk.round

\* block.round.cmp(&self.round)
Ordering(a, b) == IF a < b THEN "Less" ELSE IF a > b THEN "Greater" ELSE "Equal"

\* a plausible slip: the stale ref is still counted
add_block_less_counts(clk, block) ==
    [clk EXCEPT !.aggregator = StakeAggregator_add(clk.aggregator, block.author,
                                                   committee).agg]

\* Ordering::Less: nothing is done
add_block_less(clk, block) == clk

\* a plausible slip: the aggregator is not cleared before the author is added
add_block_greater_no_clear(clk, block) ==
    [clk EXCEPT
        !.aggregator = StakeAggregator_add(clk.aggregator, block.author, committee).agg,
        !.round = block.round]

\* Ordering::Greater: clear, add the author (return value dropped), take the round
add_block_greater(clk, block) ==
    [clk EXCEPT
        !.aggregator = StakeAggregator_add(StakeAggregator_clear(clk.aggregator),
                                           block.author, committee).agg,
        !.round = block.round]

\* block.round + 1 on a u32: a panic when overflow is checked, else the wrapped sum
round_plus_one(clk, r) ==
    IF r = RoundMax
    THEN IF overflow_checks
         THEN [clk EXCEPT !.panicked = TRUE]
         ELSE [clk EXCEPT !.round = RoundZero]
    ELSE [clk EXCEPT !.round = r + 1]

\* Instant::now(): a monotonic clock read after the instant in last_quorum_ts
\* (instants beyond MaxTime are read as MaxTime)
Instant_now(clk) ==
    IF clk.last_quorum_ts < MaxTime THEN clk.last_quorum_ts + 1 ELSE MaxTime

\* a plausible slip: last_quorum_ts is stamped at every ref of the current round
add_block_equal_always_stamps(clk, block) ==
    LET r == StakeAggregator_add(clk.aggregator, block.author, committee) IN
    IF r.reached
    THEN LET cleared == [clk EXCEPT !.aggregator = StakeAggregator_clear(r.agg)]
             advanced == round_plus_one(cleared, block.round)
         IN IF advanced.panicked
            THEN advanced
            ELSE [advanced EXCEPT !.last_quorum_ts = Instant_now(clk)]
    ELSE [clk EXCEPT !.aggregator = r.agg, !.last_quorum_ts = Instant_now(clk)]

\* Ordering::Equal: add the author; when add returns true clear, advance, stamp
add_block_equal(clk, block) ==
    LET r == StakeAggregator_add(clk.aggregator, block.author, committee) IN
    IF r.reached
    THEN LET cleared == [clk EXCEPT !.aggregator = StakeAggregator_clear(r.agg)]
             advanced == round_plus_one(cleared, block.round)
         IN IF advanced.panicked
            THEN advanced
            ELSE [advanced EXCEPT !.last_quorum_ts = Instant_now(clk)]
    ELSE [clk EXCEPT !.aggregator = r.agg]

\* add_block(&mut self, block)
add_block(clk, block) ==
    CASE Ordering(block.round, clk.round) = "Less" -> add_block_less(clk, block)
      [] Ordering(block.round, clk.round) = "Greater" -> add_block_greater(clk, block)
      [] Ordering(block.round, clk.round) = "Equal" -> add_block_equal(clk, block)

\* a plausible slip: the loop stops at the first ref that moves the round
RECURSIVE add_blocks_loop_stops(_, _)
add_blocks_loop_stops(clk, blocks) ==
    IF blocks = <<>> \/ clk.panicked THEN clk
    ELSE LET after == add_block(clk, Head(blocks)) IN
         IF after.round # clk.round THEN after
         ELSE add_blocks_loop_stops(after, Tail(blocks))

\* the for loop of add_blocks; a panic ends it
RECURSIVE add_blocks_loop(_, _)
add_blocks_loop(clk, blocks) ==
    IF blocks = <<>> \/ clk.panicked THEN clk
    ELSE add_blocks_loop(add_block(clk, Head(blocks)), Tail(blocks))

\* add_blocks(&mut self, blocks) -> Option<Round>
add_blocks(clk, blocks) ==
    LET previous_round == clk.round
        after == add_blocks_loop(clk, blocks)
    IN [clk |-> after,
        ret |-> IF after.round > previous_round THEN Some(after.round) ELSE None]

(***************************************************************************)
(* Bridge action executor: values                                          *)
(***************************************************************************)
\* capacity of the signing queue and of the execution queue (1000 in the
\* program, scaled down so that a full queue is reached)
CHANNEL_SIZE == 1

\* calls of submit_to_executor made by the orchestrator
MaxSubmits == 2

\* versions of the gas object are 0..MaxGasVersion
MaxGasVersion == 2

\* request_signature gives up when attempt_times >= 15
MaxAttempts == 15

\* delay_ms = 100 * (2 ^ attempt_times)
BaseDelayMs == 100

\* sleep before a certificate is sent again after stale gas data
StaleGasDelayMs == 500

\* bridge actions, each named by its digest (the key of the pending-action store)
Actions == {"a1", "a2"}

Owners == {"signer", "other"}

\* Owner::AddressOwner(sui_address)
sui_address == "signer"

NoCertificate == "none"

BridgeActionExecutionWrapper(action, attempt_times) ==
    [action |-> action, attempt_times |-> attempt_times]

(***************************************************************************)
(* Pending-action store, authority aggregator and chain client             *)
(* (storage.rs, bridge_authority_aggregator.rs, sui_client.rs)             *)
(***************************************************************************)
insert_pending_actions(st, batch) == st \cup batch

remove_pending_actions(st, keys) == st \ keys

get_all_pending_actions(st) == st

\* request_committee_signatures: a certificate when the signatures of the
\* committee reach the validity threshold
request_committee_signatures(sg, action) ==
    IF sg[action] THEN "Ok" ELSE "Err"

Effects(status, version, owner) ==
    [status |-> status, gas_object |-> [reference |-> version, owner |-> owner]]

NoEffects == Effects("none", 0, sui_address)

Ok(effects) == [kind |-> "Effects", effects |-> effects]

Err(e) == [kind |-> e, effects |-> NoEffects]

\* the outcome of a submission as the execution loop matches it
Outcome(result) ==
    IF result.kind = "Effects" THEN result.effects.status ELSE result.kind

\* get_gas_object_ref_and_owner(gas_object_id)
get_gas_object_ref_and_owner(ch) == [obj_ref |-> ch.version, owner |-> ch.owner]

\* execute_transaction_block_with_effects(signed_tx): what the chain does with
\* the transaction and what the client returns. A transaction whose gas
\* reference is current may execute (Success or Failure, the gas object gets
\* its next version) and its response may be lost; a transaction executed
\* before is answered with its effects; a transaction whose gas reference is
\* out of date and that never executed is answered StaleGasData; any
\* submission may be answered InsufficientGas or another error.
execute_transaction_block_with_effects(ch, tx) ==
    LET g == tx.gas
        fresh == g = ch.version
        cached == g < ch.version /\ ch.status[g] # "none"
        executes ==
            IF fresh /\ ch.version < MaxGasVersion /\ ch.owner = sui_address
            THEN {[chain |-> [version |-> ch.version + 1, owner |-> o,
                              status |-> [ch.status EXCEPT ![g] = s]],
                   result |-> IF lost THEN Err("Other") ELSE Ok(Effects(s, g + 1, o)),
                   executed |-> s] :
                      s \in {"Success", "Failure"}, o \in Owners, lost \in BOOLEAN}
            ELSE {}
        replays ==
            IF cached
            THEN {[chain |-> ch, result |-> Ok(Effects(ch.status[g], g + 1, ch.owner)),
                   executed |-> "none"]}
            ELSE {}
        stale ==
            IF ~fresh /\ ~cached
            THEN {[chain |-> ch, result |-> Err("StaleGasData"), executed |-> "none"]}
            ELSE {}
        refused ==
            {[chain |-> ch, result |-> Err(e), executed |-> "none"] :
                e \in {"InsufficientGas", "Other"}}
    IN executes \cup replays \cup stale \cup refused

(***************************************************************************)
(* Bridge action executor (action_executor.rs)                             *)
(***************************************************************************)
\* a ^ b of Rust: bitwise exclusive or
RECURSIVE BitXor(_, _)
BitXor(a, b) ==
    IF a = 0 THEN b
    ELSE IF b = 0 THEN a
    ELSE (((a % 2) + (b % 2)) % 2) + 2 * BitXor(a \div 2, b \div 2)

\* let delay_ms = 100 * (2 ^ attempt_times);
delay_ms(attempt_times) == BaseDelayMs * BitXor(2, attempt_times)

\* build_transaction(&gas_object_ref): the transaction data, and so the
\* transaction digest, depend on the gas object reference alone
build_transaction(gas) == [gas |-> gas]

NoTransaction == build_transaction(0)

\* a variant of the refresh that takes the reference whoever owns the object
refresh_gas_data_with_effects_unchecked(effects) ==
    [obj_ref |-> effects.gas_object.reference, panicked |-> FALSE]

refresh_gas_data_with_effects(effects) ==
    [obj_ref |-> effects.gas_object.reference,
     panicked |-> effects.gas_object.owner # sui_address]

refresh_gas_data_with_gas_object_id(ch) ==
    LET r == get_gas_object_ref_and_owner(ch)
    IN [obj_ref |-> r.obj_ref, panicked |-> r.owner # sui_address]

\* a variant that falls back to the reference of construction after Failure
handle_execution_effects_failure_resets(st, gas, effects, certificate) ==
    LET st1 == IF effects.status = "Success"
               THEN remove_pending_actions(st, {certificate})
               ELSE st
        r == refresh_gas_data_with_effects(effects)
    IN [store |-> st1,
        gas_object_ref |-> IF r.panicked THEN gas
                           ELSE IF effects.status = "Success" THEN r.obj_ref
                           ELSE 0,
        panicked |-> r.panicked,
        resend |-> FALSE, delay_ms |-> 0]

\* a variant that refreshes the gas reference after Success only
handle_execution_effects_success_only(st, gas, effects, certificate) ==
    LET st1 == IF effects.status = "Success"
               THEN remove_pending_actions(st, {certificate})
               ELSE st
        r == refresh_gas_data_with_effects(effects)
    IN [store |-> st1,
        gas_object_ref |-> IF r.panicked \/ effects.status # "Success"
                           THEN gas ELSE r.obj_ref,
        panicked |-> r.panicked,
        resend |-> FALSE, delay_ms |-> 0]

\* a variant that checks the owner of the gas object before it removes the
\* digest
handle_execution_effects_checks_owner_first(st, gas, effects, certificate) ==
    LET r == refresh_gas_data_with_effects(effects)
        st1 == IF effects.status = "Success" /\ ~r.panicked
               THEN remove_pending_actions(st, {certificate})
               ELSE st
    IN [store |-> st1,
        gas_object_ref |-> IF r.panicked THEN gas ELSE r.obj_ref,
        panicked |-> r.panicked,
        resend |-> FALSE, delay_ms |-> 0]

\* handle_execution_effects: the removal comes before the gas refresh, whose
\* assertion may panic
handle_execution_effects(st, gas, effects, certificate) ==
    LET st1 == IF effects.status = "Success"
               THEN remove_pending_actions(st, {certificate})
               ELSE st
        r == refresh_gas_data_with_effects(effects)
    IN [store |-> st1,
        gas_object_ref |-> IF r.panicked THEN gas ELSE r.obj_ref,
        panicked |-> r.panicked,
        resend |-> FALSE, delay_ms |-> 0]

\* a variant of the match that drops the certificate after any other error
on_execution_result_drops_on_error(st, gas, result, certificate, ch) ==
    CASE result.kind = "Effects" ->
            handle_execution_effects(st, gas, result.effects, certificate)
      [] result.kind = "StaleGasData" ->
            LET r == refresh_gas_data_with_gas_object_id(ch)
            IN [store |-> st,
                gas_object_ref |-> IF r.panicked THEN gas ELSE r.obj_ref,
                panicked |-> r.panicked,
                resend |-> ~r.panicked, delay_ms |-> StaleGasDelayMs]
      [] OTHER ->
            [store |-> st, gas_object_ref |-> gas, panicked |-> FALSE,
             resend |-> FALSE, delay_ms |-> 0]

\* a variant of the match that looks up the gas object after every error
on_execution_result_always_refreshes(st, gas, result, certificate, ch) ==
    LET r == refresh_gas_data_with_gas_object_id(ch)
        looked_up == IF r.panicked THEN gas ELSE r.obj_ref
    IN CASE result.kind = "Effects" ->
               handle_execution_effects(st, gas, result.effects, certificate)
         [] result.kind = "StaleGasData" ->
               [store |-> st, gas_object_ref |-> looked_up, panicked |-> r.panicked,
                resend |-> ~r.panicked, delay_ms |-> StaleGasDelayMs]
         [] result.kind = "InsufficientGas" ->
               [store |-> st, gas_object_ref |-> looked_up, panicked |-> FALSE,
                resend |-> FALSE, delay_ms |-> 0]
         [] OTHER ->
               [store |-> st, gas_object_ref |-> looked_up, panicked |-> FALSE,
                resend |-> TRUE, delay_ms |-> 0]

\* a variant of the match that treats InsufficientGas as any other error
on_execution_result_retries_insufficient_gas(st, gas, result, certificate, ch) ==
    CASE result.kind = "Effects" ->
            handle_execution_effects(st, gas, result.effects, certificate)
      [] result.kind = "StaleGasData" ->
            LET r == refresh_gas_data_with_gas_object_id(ch)
            IN [store |-> st,
                gas_object_ref |-> IF r.panicked THEN gas ELSE r.obj_ref,
                panicked |-> r.panicked,
                resend |-> ~r.panicked, delay_ms |-> StaleGasDelayMs]
      [] OTHER ->
            [store |-> st, gas_object_ref |-> gas, panicked |-> FALSE,
             resend |-> TRUE, delay_ms |-> 0]

\* a variant of the match whose stale-gas arm sends the certificate again
\* without looking up the gas object
on_execution_result_stale_keeps_gas(st, gas, result, certificate, ch) ==
    CASE result.kind = "Effects" ->
            handle_execution_effects(st, gas, result.effects, certificate)
      [] result.kind = "StaleGasData" ->
            [store |-> st, gas_object_ref |-> gas, panicked |-> FALSE,
             resend |-> TRUE, delay_ms |-> StaleGasDelayMs]
      [] result.kind = "InsufficientGas" ->
            [store |-> st, gas_object_ref |-> gas, panicked |-> FALSE,
             resend |-> FALSE, delay_ms |-> 0]
      [] OTHER ->
            [store |-> st, gas_object_ref |-> gas, panicked |-> FALSE,
             resend |-> TRUE, delay_ms |-> 0]

\* a variant of the match whose stale-gas arm refreshes the gas reference and
\* drops the certificate
on_execution_result_stale_drops(st, gas, result, certificate, ch) ==
    CASE result.kind = "Effects" ->
            handle_execution_effects(st, gas, result.effects, certificate)
      [] result.kind = "StaleGasData" ->
            LET r == refresh_gas_data_with_gas_object_id(ch)
            IN [store |-> st,
                gas_object_ref |-> IF r.panicked THEN gas ELSE r.obj_ref,
                panicked |-> r.panicked,
                resend |-> FALSE, delay_ms |-> 0]
      [] result.kind = "InsufficientGas" ->
            [store |-> st, gas_object_ref |-> gas, panicked |-> FALSE,
             resend |-> FALSE, delay_ms |-> 0]
      [] OTHER ->
            [store |-> st, gas_object_ref |-> gas, panicked |-> FALSE,
             resend |-> TRUE, delay_ms |-> 0]

\* the match on the result of the submission in run_onchain_execution_loop;
\* ch is the chain as the lookup of the gas object sees it
on_execution_result(st, gas, result, certificate, ch) ==
    CASE result.kind = "Effects" ->
            handle_execution_effects(st, gas, result.effects, certificate)
      [] result.kind = "StaleGasData" ->
            LET r == refresh_gas_data_with_gas_object_id(ch)
            IN [store |-> st,
                gas_object_ref |-> IF r.panicked THEN gas ELSE r.obj_ref,
                panicked |-> r.panicked,
                resend |-> ~r.panicked, delay_ms |-> StaleGasDelayMs]
      [] result.kind = "InsufficientGas" ->
            [store |-> st, gas_object_ref |-> gas, panicked |-> FALSE,
             resend |-> FALSE, delay_ms |-> 0]
      [] OTHER ->
            [store |-> st, gas_object_ref |-> gas, panicked |-> FALSE,
             resend |-> TRUE, delay_ms |-> 0]

\* BridgeActionExecutor::new followed by run(): empty queues, no task yet
ExecutorNew ==
    /\ store = {}
    /\ submits = 0
    /\ signing_queue = <<>>
    /\ sign_tasks = EmptyBag
    /\ execution_queue = <<>>
    /\ exec = [pc |-> "recv", certificate |-> NoCertificate, tx |-> NoTransaction]
    /\ gas_object_ref = 0
    /\ retry_tasks = EmptyBag
    /\ chain = [version |-> 0, owner |-> sui_address,
                status |-> [v \in 0..(MaxGasVersion - 1) |-> "none"]]
    /\ onchain = [a \in Actions |-> 0]
    /\ xev = [op |-> "new", certificate |-> NoCertificate, outcome |-> "none",
              effects |-> NoEffects, tx |-> NoTransaction, gas_before |-> 0]
    /\ loops = [sender |-> TRUE, signing |-> "running"]

\* the executor as the clock's specifications hold it: constructed, never used
ExecutorIdle ==
    /\ ExecutorNew
    /\ sigs = [a \in Actions |-> TRUE]

(***************************************************************************)
(* Block value model (block.rs)                                            *)
(***************************************************************************)
\* most ancestors of a block
MaxAncestors == 1

\* the bytes of the digests that name other blocks; BlockDigest is an array
\* of DIGEST_LENGTH bytes
DigestBytes(d) == IF d = "d0" THEN <<0, 2>> ELSE <<1, 0>>

DIGEST_LENGTH == Len(DigestBytes("d0"))

\* DefaultHashFunction: the digest of a byte string, taken to be free of
\* collisions
HashOf(bytes) == [hash |-> bytes]

\* OnceCell<BlockDigest>
EmptyCell == [set |-> FALSE, value |-> HashOf(<<>>)]

FilledCell(v) == [set |-> TRUE, value |-> v]

\* little-endian bytes of a natural number, len of them
RECURSIVE le_bytes(_, _)
le_bytes(n, len) ==
    IF len = 0 THEN <<>> ELSE <<n % 256>> \o le_bytes(n \div 256, len - 1)

RECURSIVE le_value(_)
le_value(bytes) ==
    IF bytes = <<>> THEN 0 ELSE Head(bytes) + 256 * le_value(Tail(bytes))

\* a Round is a u32; the model writes the value r - 2^31, whose low 31 bits
\* are those of the u32 and whose sign is its top bit inverted
u32_to_bytes(r) ==
    LET low == IF r < 0 THEN r - RoundZero ELSE r
    IN <<low % 256, (low \div 256) % 256, (low \div 65536) % 256,
         (low \div 16777216) + (IF r >= 0 THEN 128 ELSE 0)>>

u32_from_bytes(b) ==
    LET low == b[1] + 256 * b[2] + 65536 * b[3] + 16777216 * (b[4] % 128)
    IN IF b[4] >= 128 THEN low ELSE low + RoundZero

digest_from_bytes(b) == CHOOSE d \in Digests : DigestBytes(d) = b

\* bcs of a BlockRef: round, author, digest in declaration order
serialize_BlockRef(ref) ==
    u32_to_bytes(ref.round) \o le_bytes(ref.author, 4) \o DigestBytes(ref.digest)

BlockRefLength == 8 + DIGEST_LENGTH

deserialize_BlockRef(b) ==
    [round |-> u32_from_bytes(SubSeq(b, 1, 4)),
     author |-> le_value(SubSeq(b, 5, 8)),
     digest |-> digest_from_bytes(SubSeq(b, 9, BlockRefLength))]

\* bcs of a Vec<BlockRef>: the length, then the elements
RECURSIVE serialize_refs(_)
serialize_refs(refs) ==
    IF refs = <<>> THEN <<>>
    ELSE serialize_BlockRef(Head(refs)) \o serialize_refs(Tail(refs))

serialize_ancestors(refs) == <<Len(refs)>> \o serialize_refs(refs)

deserialize_ancestors(b) ==
    [i \in 1..b[1] |->
        deserialize_BlockRef(SubSeq(b, 2 + (i - 1) * BlockRefLength, 1 + i * BlockRefLength))]

BlockV1_new(round, author, timestamp_ms, ancestors) ==
    [round |-> round, author |-> author, timestamp_ms |-> timestamp_ms,
     ancestors |-> ancestors, digest |-> EmptyCell]

\* a variant of the serialization that writes the memoized digest as well
serialize_BlockV1_with_cell(b) ==
    u32_to_bytes(b.round) \o le_bytes(b.author, 4) \o le_bytes(b.timestamp_ms, 8)
        \o serialize_ancestors(b.ancestors)
        \o (IF b.digest.set THEN <<1>> \o b.digest.value.hash ELSE <<0>>)

\* derive(Serialize) of BlockV1: the fields in declaration order, the digest
\* cell skipped
serialize_BlockV1(b) ==
    u32_to_bytes(b.round) \o le_bytes(b.author, 4) \o le_bytes(b.timestamp_ms, 8)
        \o serialize_ancestors(b.ancestors)

\* derive(Deserialize) of BlockV1: the skipped cell is left empty
deserialize_BlockV1(b) ==
    BlockV1_new(u32_from_bytes(SubSeq(b, 1, 4)),
                le_value(SubSeq(b, 5, 8)),
                le_value(SubSeq(b, 9, 16)),
                deserialize_ancestors(SubSeq(b, 17, Len(b))))

\* Block::V1(BlockV1)
Block_V1(b) == [version |-> "V1", v1 |-> b]

\* index of the variant V1 in the enum Block, the version tag of the wire form
VariantIndex(version) == IF version = "V1" THEN 0 ELSE 1

\* derive(Serialize) of Block: the variant index, then the variant
serialize_Block(B) == <<VariantIndex(B.version)>> \o serialize_BlockV1(B.v1)

deserialize_Block(b) == Block_V1(deserialize_BlockV1(Tail(b)))

\* BlockV1::digest: the cell's value, computed on the first call from the
\* bytes of the BlockV1
BlockV1_digest(b) ==
    IF b.digest.set THEN b.digest.value ELSE HashOf(serialize_BlockV1(b))

\* the block after a call of digest(): the cell is filled
BlockV1_memoized(b) == [b EXCEPT !.digest = FilledCell(BlockV1_digest(b))]

\* Block::digest
Block_digest(B) == BlockV1_digest(B.v1)

Block_memoized(B) == [B EXCEPT !.v1 = BlockV1_memoized(B.v1)]

\* BlockV1::reference
BlockV1_reference(b) ==
    [round |-> b.round, author |-> b.author, digest |-> BlockV1_digest(b)]

\* Ord of two byte arrays of the same length: the first differing byte decides
RECURSIVE bytes_cmp(_, _)
bytes_cmp(x, y) ==
    IF x = <<>> THEN "Equal"
    ELSE IF Head(x) # Head(y) THEN Ordering(Head(x), Head(y))
    ELSE bytes_cmp(Tail(x), Tail(y))

\* derive(Ord) of BlockDigest
BlockDigest_cmp(d1, d2) == bytes_cmp(DigestBytes(d1), DigestBytes(d2))

\* a variant that compares the author before the round (the argument order of
\* BlockRef::new_test)
BlockRef_cmp_author_first(ref1, ref2) ==
    IF ref1.author # ref2.author THEN Ordering(ref1.author, ref2.author)
    ELSE IF ref1.round # ref2.round THEN Ordering(ref1.round, ref2.round)
    ELSE BlockDigest_cmp(ref1.digest, ref2.digest)

\* derive(PartialOrd, Ord) of BlockRef: the fields in declaration order
BlockRef_cmp(ref1, ref2) ==
    IF ref1.round # ref2.round THEN Ordering(ref1.round, ref2.round)
    ELSE IF ref1.author # ref2.author THEN Ordering(ref1.author, ref2.author)
    ELSE BlockDigest_cmp(ref1.digest, ref2.digest)

\* derive(PartialEq, Eq) of BlockRef
BlockRef_eq(ref1, ref2) ==
    /\ ref1.round = ref2.round
    /\ ref1.author = ref2.author
    /\ DigestBytes(ref1.digest) = DigestBytes(ref2.digest)

NoBytes == <<>>

NoBlock == Block_V1(BlockV1_new(RoundZero, 0, 0, <<>>))

NoBlockRef == [round |-> RoundZero, author |-> 0, digest |-> "d0"]

\* no block built, nothing compared
BlockIdle ==
    /\ blk = NoBlock
    /\ wire = NoBytes
    /\ decoded = [some |-> FALSE, block |-> NoBlock]
    /\ bev = [op |-> "new", ret |-> EmptyCell, prev |-> EmptyCell, dret |-> EmptyCell]
    /\ cmp_ev = [op |-> "new", ref1 |-> NoBlockRef, ref2 |-> NoBlockRef,
                 ord |-> "Equal", eq |-> TRUE]

(***************************************************************************)
(* Actions on the clock                                                    *)
(***************************************************************************)
\* rounds of the refs of a batch: of the explored rounds, the current round
\* and the one above it (a ref of the current round is stale once an earlier
\* ref of the batch has moved the clock)
BatchRounds(r) ==
    {x \in RoundValues : x = r \/ (r < RoundMax /\ x = r + 1)}

BatchRefs(r) == [round : BatchRounds(r), author : Authorities, digest : {"d0"}]

Batches(r) == UNION {[1..n -> BatchRefs(r)] : n \in 0..MaxBatch}

NoRef == [round |-> RoundZero, author |-> 0, digest |-> "d0"]

\* ThresholdClock::new(round, context) with a round of rounds
ClockInitFrom(rounds) ==
    /\ committee \in Committees
    /\ overflow_checks \in BOOLEAN
    /\ \E r \in rounds : clock = ThresholdClock_new(r)
    /\ ev = [op |-> "new", block |-> NoRef, cmp |-> "none", prev_empty |-> TRUE,
             ret |-> None]
    /\ seq_clock = clock
    /\ seq_pending = <<>>
    /\ ExecutorIdle
    /\ BlockIdle

ClockInit == ClockInitFrom(RoundValues)

\* one call of add_block
AddBlock(block) ==
    /\ ~clock.panicked
    /\ clock' = add_block(clock, block)
    /\ ev' = [op |-> "add_block", block |-> block,
              cmp |-> Ordering(block.round, clock.round),
              prev_empty |-> clock.aggregator.votes = {},
              ret |-> None]
    /\ UNCHANGED <<committee, overflow_checks, seq_clock, seq_pending>>
    /\ UNCHANGED executor_vars
    /\ UNCHANGED block_vars

ClockNext == \E b \in BlockRefs : AddBlock(b)

SpecClock == ClockInit /\ [][ClockNext]_vars

\* one call of add_blocks; the same refs are then fed to seq_clock one by one
AddBlocks(blocks) ==
    /\ ~clock.panicked
    /\ seq_pending = <<>>
    /\ LET r == add_blocks(clock, blocks) IN
          /\ clock' = r.clk
          /\ ev' = [op |-> "add_blocks", block |-> NoRef, cmp |-> "none",
                    prev_empty |-> clock.aggregator.votes = {}, ret |-> r.ret]
    /\ seq_pending' = blocks
    /\ UNCHANGED <<committee, overflow_checks, seq_clock>>
    /\ UNCHANGED executor_vars
    /\ UNCHANGED block_vars

\* seq_clock takes the next ref of the batch by a call of add_block
SeqAddBlock ==
    /\ seq_pending # <<>>
    /\ ~seq_clock.panicked
    /\ seq_clock' = add_block(seq_clock, Head(seq_pending))
    /\ seq_pending' = Tail(seq_pending)
    /\ UNCHANGED <<committee, overflow_checks, clock, ev>>
    /\ UNCHANGED executor_vars
    /\ UNCHANGED block_vars

\* a panic of seq_clock ends its caller: the rest of the batch is never fed
SeqPanicked ==
    /\ seq_pending # <<>>
    /\ seq_clock.panicked
    /\ seq_pending' = <<>>
    /\ UNCHANGED <<committee, overflow_checks, clock, ev, seq_clock>>
    /\ UNCHANGED executor_vars
    /\ UNCHANGED block_vars

ClockBulkNext ==
    \/ \E bs \in Batches(clock.round) : AddBlocks(bs)
    \/ SeqAddBlock
    \/ SeqPanicked

\* the batches start at the lowest round of each explored range and reach
\* the other rounds by advancing
ClockBulkInit == ClockInitFrom({RoundZero, RoundMax - RoundSpan})

SpecClockBulk == ClockBulkInit /\ [][ClockBulkNext]_vars

(***************************************************************************)
(* Actions of the bridge action executor                                   *)
(***************************************************************************)
\* the clock plays no part in the executor
ClockIdle ==
    /\ committee = Committee_new([a \in Authorities |-> 1])
    /\ overflow_checks = TRUE
    /\ clock = ThresholdClock_new(RoundZero)
    /\ ev = [op |-> "new", block |-> NoRef, cmp |-> "none", prev_empty |-> TRUE,
             ret |-> None]
    /\ seq_clock = clock
    /\ seq_pending = <<>>

\* the signatures of the committee for a2 are sufficient from the start, those
\* for a1 are sufficient or short (the two actions are interchangeable)
ExecutorInit ==
    /\ ClockIdle
    /\ BlockIdle
    /\ ExecutorNew
    /\ sigs \in {f \in [Actions -> BOOLEAN] : f["a2"]}

\* the wrappers and tasks of an action that the signing side holds
SigningOf(a) ==
    LET S == {t \in BagToSet(sign_tasks) : t.action = a}
    IN Cardinality({i \in DOMAIN signing_queue : signing_queue[i].action = a})
           + BagCardinality([t \in S |-> sign_tasks[t]])

\* the orchestrator records the action as pending and calls submit_to_executor;
\* the send waits while the signing queue is full. The orchestrator submits an
\* action again at any time once the signatures for it are sufficient; while
\* they are short it does so only when no submission of it is being signed
Submit(action) ==
    /\ loops.sender
    /\ loops.signing = "running"
    /\ submits < MaxSubmits
    /\ ~sigs[action] => SigningOf(action) = 0
    /\ Len(signing_queue) < CHANNEL_SIZE
    /\ submits' = submits + 1
    /\ store' = insert_pending_actions(store, {action})
    /\ signing_queue' = Append(signing_queue, BridgeActionExecutionWrapper(action, 0))
    /\ UNCHANGED <<sign_tasks, sigs, execution_queue, exec, gas_object_ref,
                   retry_tasks, chain, onchain, xev>>
    /\ UNCHANGED loops
    /\ UNCHANGED clock_vars
    /\ UNCHANGED block_vars

\* the senders of the signing queue that are alive: the one returned by run(),
\* the one the signing loop holds for the tasks it spawns, and one in every
\* request_signature task
SigningSenders ==
    (IF loops.sender THEN 1 ELSE 0)
        + (IF loops.signing = "running" THEN 1 ELSE 0)
        + BagCardinality(sign_tasks)

\* the senders of the execution queue that are alive: the one the execution
\* loop holds, the one the signing loop holds, and one in every
\* request_signature task and in every detached task of the execution loop
ExecutionSenders ==
    (IF exec.pc \in {"recv", "await"} THEN 1 ELSE 0)
        + (IF loops.signing = "running" THEN 1 ELSE 0)
        + BagCardinality(sign_tasks)
        + BagCardinality(retry_tasks)

\* run_signature_aggregation_loop: recv() gives a wrapper, for which
\* request_signature is spawned, or None when the queue is empty and every
\* sender is dropped, which ends the loop
SignRecv ==
    /\ loops.signing = "running"
    /\ IF signing_queue # <<>>
       THEN /\ signing_queue' = Tail(signing_queue)
            /\ sign_tasks' = sign_tasks (+) SetToBag({[pc |-> "request",
                                   action |-> Head(signing_queue).action,
                                   attempt_times |-> Head(signing_queue).attempt_times,
                                   delay_ms |-> 0]})
            /\ UNCHANGED loops
       ELSE /\ SigningSenders = 0
            /\ loops' = [loops EXCEPT !.signing = "done"]
            /\ UNCHANGED <<signing_queue, sign_tasks>>
    /\ UNCHANGED <<store, submits, sigs, execution_queue, exec, gas_object_ref,
                   retry_tasks, chain, onchain, xev>>
    /\ UNCHANGED clock_vars
    /\ UNCHANGED block_vars

\* a variant of request_signature that gives up one attempt later
RequestSignature_one_more(t) ==
    /\ BagIn(t, sign_tasks)
    /\ t.pc = "request"
    /\ LET rest == sign_tasks (-) SetToBag({t}) IN
       IF request_committee_signatures(sigs, t.action) = "Ok"
       THEN sign_tasks' = rest (+) SetToBag({[t EXCEPT !.pc = "send_certificate"]})
       ELSE IF t.attempt_times > MaxAttempts
       THEN sign_tasks' = rest
       ELSE sign_tasks' = rest (+) SetToBag({[t EXCEPT !.pc = "sleep",
                                                !.delay_ms = delay_ms(t.attempt_times)]})
    /\ UNCHANGED <<store, submits, signing_queue, sigs, execution_queue, exec,
                   gas_object_ref, retry_tasks, chain, onchain, xev>>
    /\ UNCHANGED loops
    /\ UNCHANGED clock_vars
    /\ UNCHANGED block_vars

\* a variant of request_signature that sends a certificate whatever the
\* authority aggregator answers
RequestSignature_ignores_error(t) ==
    /\ BagIn(t, sign_tasks)
    /\ t.pc = "request"
    /\ sign_tasks' = (sign_tasks (-) SetToBag({t}))
                         (+) SetToBag({[t EXCEPT !.pc = "send_certificate"]})
    /\ UNCHANGED <<store, submits, signing_queue, sigs, execution_queue, exec,
                   gas_object_ref, retry_tasks, chain, onchain, xev>>
    /\ UNCHANGED loops
    /\ UNCHANGED clock_vars
    /\ UNCHANGED block_vars

\* a variant of request_signature that takes the action out of the store when
\* it gives up
RequestSignature_drop_removes(t) ==
    /\ BagIn(t, sign_tasks)
    /\ t.pc = "request"
    /\ LET rest == sign_tasks (-) SetToBag({t}) IN
       IF request_committee_signatures(sigs, t.action) = "Ok"
       THEN /\ sign_tasks' = rest (+) SetToBag({[t EXCEPT !.pc = "send_certificate"]})
            /\ UNCHANGED store
       ELSE IF t.attempt_times >= MaxAttempts
       THEN /\ sign_tasks' = rest
            /\ store' = remove_pending_actions(store, {t.action})
       ELSE /\ sign_tasks' = rest (+) SetToBag({[t EXCEPT !.pc = "sleep",
                                                   !.delay_ms = delay_ms(t.attempt_times)]})
            /\ UNCHANGED store
    /\ UNCHANGED <<submits, signing_queue, sigs, execution_queue, exec,
                   gas_object_ref, retry_tasks, chain, onchain, xev>>
    /\ UNCHANGED loops
    /\ UNCHANGED clock_vars
    /\ UNCHANGED block_vars

\* request_signature up to its first send: the aggregator answers; on Ok the
\* task goes on to send the certificate, on Err it gives up at attempt 15 or
\* sleeps delay_ms
RequestSignature(t) ==
    /\ BagIn(t, sign_tasks)
    /\ t.pc = "request"
    /\ LET rest == sign_tasks (-) SetToBag({t}) IN
       IF request_committee_signatures(sigs, t.action) = "Ok"
       THEN sign_tasks' = rest (+) SetToBag({[t EXCEPT !.pc = "send_certificate"]})
       ELSE IF t.attempt_times >= MaxAttempts
       THEN sign_tasks' = rest
       ELSE sign_tasks' = rest (+) SetToBag({[t EXCEPT !.pc = "sleep",
                                                !.delay_ms = delay_ms(t.attempt_times)]})
    /\ UNCHANGED <<store, submits, signing_queue, sigs, execution_queue, exec,
                   gas_object_ref, retry_tasks, chain, onchain, xev>>
    /\ UNCHANGED loops
    /\ UNCHANGED clock_vars
    /\ UNCHANGED block_vars

\* request_signature, Ok arm: the certificate is sent to the execution queue;
\* the send waits while the queue is full and panics when the execution loop
\* is gone
SendCertificate(t) ==
    /\ BagIn(t, sign_tasks)
    /\ t.pc = "send_certificate"
    /\ sign_tasks' = sign_tasks (-) SetToBag({t})
    /\ IF exec.pc \in {"aborted", "done"}
       THEN UNCHANGED execution_queue
       ELSE /\ Len(execution_queue) < CHANNEL_SIZE
            /\ execution_queue' = Append(execution_queue, t.action)
    /\ UNCHANGED <<store, submits, signing_queue, sigs, exec, gas_object_ref,
                   retry_tasks, chain, onchain, xev>>
    /\ UNCHANGED loops
    /\ UNCHANGED clock_vars
    /\ UNCHANGED block_vars

\* request_signature, Err arm after the sleep: the wrapper is sent to the
\* signing queue again with attempt_times + 1
SignResend(t) ==
    /\ BagIn(t, sign_tasks)
    /\ t.pc = "sleep"
    /\ Len(signing_queue) < CHANNEL_SIZE
    /\ sign_tasks' = sign_tasks (-) SetToBag({t})
    /\ signing_queue' = Append(signing_queue,
                               BridgeActionExecutionWrapper(t.action, t.attempt_times + 1))
    /\ UNCHANGED <<store, submits, sigs, execution_queue, exec, gas_object_ref,
                   retry_tasks, chain, onchain, xev>>
    /\ UNCHANGED loops
    /\ UNCHANGED clock_vars
    /\ UNCHANGED block_vars

\* more authorities answer: the signatures for the action become sufficient
SignaturesArrive(action) ==
    /\ ~sigs[action]
    /\ sigs' = [sigs EXCEPT ![action] = TRUE]
    /\ UNCHANGED <<store, submits, signing_queue, sign_tasks, execution_queue, exec,
                   gas_object_ref, retry_tasks, chain, onchain, xev>>
    /\ UNCHANGED loops
    /\ UNCHANGED clock_vars
    /\ UNCHANGED block_vars

\* a variant of the loop that receives the next certificate while a submission
\* has not returned
ExecRecv_overlapping ==
    /\ exec.pc \in {"recv", "await"}
    /\ IF execution_queue # <<>>
       THEN /\ execution_queue' = Tail(execution_queue)
            /\ exec' = [pc |-> "await", certificate |-> Head(execution_queue),
                        tx |-> build_transaction(gas_object_ref)]
       ELSE /\ ExecutionSenders = 0
            /\ exec' = [exec EXCEPT !.pc = "done"]
            /\ UNCHANGED execution_queue
    /\ UNCHANGED <<store, submits, signing_queue, sign_tasks, sigs, gas_object_ref,
                   retry_tasks, chain, onchain, xev>>
    /\ UNCHANGED loops
    /\ UNCHANGED clock_vars
    /\ UNCHANGED block_vars

\* a variant of the loop that receives only when no detached task is waiting
\* to send a certificate again
ExecRecv_waits_for_retries ==
    /\ exec.pc = "recv"
    /\ retry_tasks = EmptyBag
    /\ IF execution_queue # <<>>
       THEN /\ execution_queue' = Tail(execution_queue)
            /\ exec' = [pc |-> "await", certificate |-> Head(execution_queue),
                        tx |-> build_transaction(gas_object_ref)]
       ELSE /\ ExecutionSenders = 0
            /\ exec' = [exec EXCEPT !.pc = "done"]
            /\ UNCHANGED execution_queue
    /\ UNCHANGED <<store, submits, signing_queue, sign_tasks, sigs, gas_object_ref,
                   retry_tasks, chain, onchain, xev>>
    /\ UNCHANGED loops
    /\ UNCHANGED clock_vars
    /\ UNCHANGED block_vars

\* run_onchain_execution_loop: recv() gives a certificate, for which the
\* transaction is built from the current gas reference, signed and submitted,
\* or None when the queue is empty and every sender is dropped, which ends
\* the loop
ExecRecv ==
    /\ exec.pc = "recv"
    /\ IF execution_queue # <<>>
       THEN /\ execution_queue' = Tail(execution_queue)
            /\ exec' = [pc |-> "await", certificate |-> Head(execution_queue),
                        tx |-> build_transaction(gas_object_ref)]
       ELSE /\ ExecutionSenders = 0
            /\ exec' = [exec EXCEPT !.pc = "done"]
            /\ UNCHANGED execution_queue
    /\ UNCHANGED <<store, submits, signing_queue, sign_tasks, sigs, gas_object_ref,
                   retry_tasks, chain, onchain, xev>>
    /\ UNCHANGED loops
    /\ UNCHANGED clock_vars
    /\ UNCHANGED block_vars

\* a variant of the loop that sends the certificate to its own queue itself,
\* waiting for room, before it goes back to recv
ExecHandle_inline_resend ==
    /\ exec.pc = "await"
    /\ \E rep \in execute_transaction_block_with_effects(chain, exec.tx) :
          LET certificate == exec.certificate
              h == on_execution_result(store, gas_object_ref, rep.result,
                                       certificate, rep.chain)
          IN /\ chain' = rep.chain
             /\ onchain' = IF rep.executed = "Success"
                           THEN [onchain EXCEPT ![certificate] = @ + 1]
                           ELSE onchain
             /\ store' = h.store
             /\ gas_object_ref' = h.gas_object_ref
             /\ IF h.resend
                THEN /\ Len(execution_queue) < CHANNEL_SIZE
                     /\ execution_queue' = Append(execution_queue, certificate)
                ELSE UNCHANGED execution_queue
             /\ exec' = [pc |-> IF h.panicked THEN "aborted" ELSE "recv",
                         certificate |-> NoCertificate, tx |-> NoTransaction]
             /\ xev' = [op |-> "handled", certificate |-> certificate,
                        outcome |-> Outcome(rep.result),
                        effects |-> rep.result.effects, tx |-> exec.tx,
                        gas_before |-> gas_object_ref]
    /\ UNCHANGED <<submits, signing_queue, sign_tasks, sigs, retry_tasks>>
    /\ UNCHANGED loops
    /\ UNCHANGED clock_vars
    /\ UNCHANGED block_vars

\* the submission returns and the loop handles the result up to its next recv
ExecHandle ==
    /\ exec.pc = "await"
    /\ \E rep \in execute_transaction_block_with_effects(chain, exec.tx) :
          LET certificate == exec.certificate
              h == on_execution_result(store, gas_object_ref, rep.result,
                                       certificate, rep.chain)
          IN /\ chain' = rep.chain
             /\ onchain' = IF rep.executed = "Success"
                           THEN [onchain EXCEPT ![certificate] = @ + 1]
                           ELSE onchain
             /\ store' = h.store
             /\ gas_object_ref' = h.gas_object_ref
             /\ retry_tasks' = IF h.resend
                               THEN retry_tasks (+) SetToBag({[certificate |-> certificate,
                                                               delay_ms |-> h.delay_ms]})
                               ELSE retry_tasks
             /\ exec' = [pc |-> IF h.panicked THEN "aborted" ELSE "recv",
                         certificate |-> NoCertificate, tx |-> NoTransaction]
             /\ xev' = [op |-> "handled", certificate |-> certificate,
                        outcome |-> Outcome(rep.result),
                        effects |-> rep.result.effects, tx |-> exec.tx,
                        gas_before |-> gas_object_ref]
    /\ UNCHANGED <<submits, signing_queue, sign_tasks, sigs, execution_queue>>
    /\ UNCHANGED loops
    /\ UNCHANGED clock_vars
    /\ UNCHANGED block_vars

\* a detached task sends the certificate to the execution queue again; the
\* send waits while the queue is full and panics when the execution loop is gone
RetrySend(t) ==
    /\ BagIn(t, retry_tasks)
    /\ retry_tasks' = retry_tasks (-) SetToBag({t})
    /\ IF exec.pc \in {"aborted", "done"}
       THEN UNCHANGED execution_queue
       ELSE /\ Len(execution_queue) < CHANNEL_SIZE
            /\ execution_queue' = Append(execution_queue, t.certificate)
    /\ UNCHANGED <<store, submits, signing_queue, sign_tasks, sigs, exec,
                   gas_object_ref, chain, onchain, xev>>
    /\ UNCHANGED loops
    /\ UNCHANGED clock_vars
    /\ UNCHANGED block_vars

\* the gas object is used or transferred outside the executor
GasObjectChanged(owner) ==
    /\ chain.version < MaxGasVersion
    /\ chain' = [chain EXCEPT !.version = @ + 1, !.owner = owner]
    /\ UNCHANGED <<store, submits, signing_queue, sign_tasks, sigs, execution_queue,
                   exec, gas_object_ref, retry_tasks, onchain, xev>>
    /\ UNCHANGED loops
    /\ UNCHANGED clock_vars
    /\ UNCHANGED block_vars

ExecutorNext ==
    \/ \E a \in Actions : Submit(a)
    \/ SignRecv
    \/ \E t \in BagToSet(sign_tasks) : RequestSignature(t)
    \/ \E t \in BagToSet(sign_tasks) : SendCertificate(t)
    \/ \E t \in BagToSet(sign_tasks) : SignResend(t)
    \/ \E a \in Actions : SignaturesArrive(a)
    \/ ExecRecv
    \/ ExecHandle
    \/ \E t \in BagToSet(retry_tasks) : RetrySend(t)
    \/ \E o \in Owners : GasObjectChanged(o)

SpecExecutor == ExecutorInit /\ [][ExecutorNext]_vars

\* the tasks that send a certificate to the execution queue again
RetryTasks == {[certificate |-> a, delay_ms |-> d] : a \in Actions, d \in {0, StaleGasDelayMs}}

\* the execution loop keeps running: it receives when a certificate is queued
\* and every submission returns; a detached task that waits for room in the
\* execution queue gets it when room is made again and again (the senders of a
\* tokio mpsc channel are served in turn)
ExecutorFairness ==
    /\ WF_vars(ExecRecv)
    /\ WF_vars(ExecHandle)
    /\ \A t \in RetryTasks : SF_vars(RetrySend(t))

\* the executor with a committee whose signatures are sufficient for every
\* action: request_signature gets its certificate at the first attempt
ExecutorSignedInit ==
    /\ ExecutorInit
    /\ \A a \in Actions : sigs[a]

ExecutorSignedNext ==
    \/ \E a \in Actions : Submit(a)
    \/ SignRecv
    \/ \E t \in BagToSet(sign_tasks) : RequestSignature(t)
    \/ \E t \in BagToSet(sign_tasks) : SendCertificate(t)
    \/ ExecRecv
    \/ ExecHandle
    \/ \E t \in BagToSet(retry_tasks) : RetrySend(t)
    \/ \E o \in Owners : GasObjectChanged(o)

SpecExecutorFair == ExecutorSignedInit /\ [][ExecutorSignedNext]_vars /\ ExecutorFairness

\* the tasks of the signing side run on: the signing loop receives, a
\* request to the authority aggregator returns, and a task that waits for
\* room in a queue to send the certificate or the wrapper of an action gets
\* it when room is made again and again
SigningFairness ==
    /\ WF_vars(SignRecv)
    /\ \A a \in Actions :
           /\ WF_vars(\E t \in BagToSet(sign_tasks) : t.action = a /\ RequestSignature(t))
           /\ SF_vars(\E t \in BagToSet(sign_tasks) : t.action = a /\ SendCertificate(t))
           /\ SF_vars(\E t \in BagToSet(sign_tasks) : t.action = a /\ SignResend(t))

\* the executor with both loops and all their tasks running on
SpecExecutorSigningFair ==
    ExecutorInit /\ [][ExecutorNext]_vars /\ ExecutorFairness /\ SigningFairness

\* the holder of the sender returned by run() drops it
DropSender ==
    /\ loops.sender
    /\ loops' = [loops EXCEPT !.sender = FALSE]
    /\ UNCHANGED <<store, submits, signing_queue, sign_tasks, sigs, execution_queue,
                   exec, gas_object_ref, retry_tasks, chain, onchain, xev>>
    /\ UNCHANGED clock_vars
    /\ UNCHANGED block_vars

ExecutorCloseNext ==
    \/ ExecutorNext
    \/ DropSender

\* the executor whose input sender may be dropped; every task that can take
\* a step does so in the end
SpecExecutorClose ==
    ExecutorInit /\ [][ExecutorCloseNext]_vars /\ WF_vars(ExecutorCloseNext)
        /\ WF_vars(SignRecv) /\ WF_vars(ExecRecv)

(***************************************************************************)
(* Actions on blocks and block references                                  *)
(***************************************************************************)
\* the refs a block names as its ancestors
AncestorRefs ==
    {ref \in BlockRefs : ref.round \in {RoundZero, RoundMax} /\ ref.author <= 1}

AncestorLists == UNION {[1..n -> AncestorRefs] : n \in 0..MaxAncestors}

\* BlockV1::new with any fields, wrapped as Block::V1
BlockInit ==
    /\ ClockIdle
    /\ ExecutorIdle
    /\ \E round \in RoundValues, author \in Authorities, timestamp_ms \in 0..MaxTime,
          ancestors \in AncestorLists :
          blk = Block_V1(BlockV1_new(round, author, timestamp_ms, ancestors))
    /\ wire = NoBytes
    /\ decoded = [some |-> FALSE, block |-> NoBlock]
    /\ bev = [op |-> "new", ret |-> EmptyCell, prev |-> EmptyCell, dret |-> EmptyCell]
    /\ cmp_ev = [op |-> "new", ref1 |-> NoBlockRef, ref2 |-> NoBlockRef,
                 ord |-> "Equal", eq |-> TRUE]

\* block.digest(): the value is returned and stays in the cell
Digest ==
    /\ blk' = Block_memoized(blk)
    /\ bev' = [bev EXCEPT !.op = "digest",
                          !.ret = FilledCell(Block_digest(blk)),
                          !.prev = bev.ret]
    /\ UNCHANGED <<wire, decoded, cmp_ev>>
    /\ UNCHANGED <<clock_vars, executor_vars>>

\* bcs::to_bytes(&block)
Serialize ==
    /\ wire' = serialize_Block(blk)
    /\ bev' = [bev EXCEPT !.op = "serialize"]
    /\ UNCHANGED <<blk, decoded, cmp_ev>>
    /\ UNCHANGED <<clock_vars, executor_vars>>

\* bcs::from_bytes::<Block>(&wire)
Deserialize ==
    /\ wire # NoBytes
    /\ decoded' = [some |-> TRUE, block |-> deserialize_Block(wire)]
    /\ bev' = [bev EXCEPT !.op = "deserialize", !.dret = EmptyCell]
    /\ UNCHANGED <<blk, wire, cmp_ev>>
    /\ UNCHANGED <<clock_vars, executor_vars>>

\* digest() of the deserialized block
DigestDecoded ==
    /\ decoded.some
    /\ decoded' = [decoded EXCEPT !.block = Block_memoized(decoded.block)]
    /\ bev' = [bev EXCEPT !.op = "digest_decoded",
                          !.dret = FilledCell(Block_digest(decoded.block))]
    /\ UNCHANGED <<blk, wire, cmp_ev>>
    /\ UNCHANGED <<clock_vars, executor_vars>>

BlockNext ==
    \/ Digest
    \/ Serialize
    \/ Deserialize
    \/ DigestDecoded

SpecBlock == BlockInit /\ [][BlockNext]_vars

BlockRefInit ==
    /\ ClockIdle
    /\ ExecutorIdle
    /\ BlockIdle

\* ref1.cmp(&ref2) and ref1 == ref2
CompareRefs(ref1, ref2) ==
    /\ cmp_ev' = [op |-> "cmp", ref1 |-> ref1, ref2 |-> ref2,
                  ord |-> BlockRef_cmp(ref1, ref2), eq |-> BlockRef_eq(ref1, ref2)]
    /\ UNCHANGED <<blk, wire, decoded, bev>>
    /\ UNCHANGED <<clock_vars, executor_vars>>

BlockRefNext == \E ref1 \in BlockRefs, ref2 \in BlockRefs : CompareRefs(ref1, ref2)

SpecBlockRef == BlockRefInit /\ [][BlockRefNext]_vars

(***************************************************************************)
(* Claims about the threshold clock                                        *)
(***************************************************************************)
\* r2 is the round after r: r + 1, which u32 holds only below 2^32 - 1
IsNextRound(r, r2) == r < RoundMax /\ r2 = r + 1

\* the stake of the distinct authors of S
StakeOf(S) == SumStake(committee.stake, S)

\* this step is a call of add_blocks (one is made only when seq_clock has
\* taken the whole of the batch before)
AddBlocksCalled == seq_pending = <<>> /\ ev'.op = "add_blocks"

\* C1: the round returned by get_round() never decreases from one call of
\* add_block or add_blocks to the next.
C1_RoundNeverDecreases ==
    [][get_round(clock') >= get_round(clock)]_vars

\* C4: add_block with a ref of the current round adds the author; if that
\* addition makes the stake of the distinct authors reach the quorum
\* threshold the aggregator is cleared and the round becomes round + 1,
\* otherwise the round is unchanged.
C4_QuorumAdvanceAtCurrentRound ==
    [][(ev'.op = "add_block" /\ ev'.block.round = clock.round) =>
         LET votes == clock.aggregator.votes \cup {ev'.block.author}
             crossed == /\ StakeOf(clock.aggregator.votes) < committee.quorum_threshold
                        /\ StakeOf(votes) >= committee.quorum_threshold
         IN IF crossed
            THEN /\ clock'.aggregator = StakeAggregator_new
                 /\ IsNextRound(clock.round, clock'.round)
            ELSE /\ clock'.round = clock.round
                 /\ clock'.aggregator.votes = votes]_vars

\* C5: add_block with a ref of a round above the current one sets the round
\* to ref.round and leaves exactly ref.author in the aggregator, whatever the
\* aggregator held.
C5_HigherRoundJump ==
    [][(ev'.op = "add_block" /\ ev'.block.round > clock.round) =>
         /\ clock'.round = ev'.block.round
         /\ clock'.aggregator.votes = {ev'.block.author}
         /\ clock'.aggregator.stake = committee.stake[ev'.block.author]]_vars

\* a jump has been taken from a clock that held votes
C5_Witness ==
    /\ ev.op = "add_block"
    /\ ev.cmp = "Greater"
    /\ ~ev.prev_empty
    /\ clock.round = ev.block.round
    /\ clock.aggregator.votes = {ev.block.author}

\* C6: add_block with a ref of a round below the current one leaves the
\* round, the aggregator's authors and stake and last_quorum_ts unchanged.
C6_StaleRefIgnored ==
    [][(ev'.op = "add_block" /\ ev'.block.round < clock.round) =>
         /\ clock'.round = clock.round
         /\ clock'.aggregator.votes = clock.aggregator.votes
         /\ clock'.aggregator.stake = clock.aggregator.stake
         /\ clock'.last_quorum_ts = clock.last_quorum_ts]_vars

\* a stale ref of an author not yet counted reached a clock that holds votes
\* and has stamped a quorum
C6_Witness ==
    /\ ev.op = "add_block"
    /\ ev.cmp = "Less"
    /\ clock.aggregator.votes # {}
    /\ ev.block.author \notin clock.aggregator.votes
    /\ clock.last_quorum_ts > 0

\* C7: add_blocks returns Some(r) iff the round after the batch is above the
\* round before it, r is then get_round(); it returns None exactly when the
\* round is unchanged.
C7_AddBlocksReturn ==
    [][(AddBlocksCalled /\ ~clock'.panicked) =>
         /\ ev'.ret.some <=> get_round(clock') > get_round(clock)
         /\ ev'.ret.some => ev'.ret.value = get_round(clock')
         /\ ~ev'.ret.some <=> get_round(clock') = get_round(clock)]_vars

\* C8: once the refs of a batch given to add_blocks have been given one by
\* one to add_block, both clocks have the same round and the same aggregator
\* (and both or neither have panicked).
C8_BulkEqualsSequential ==
    seq_pending = <<>> =>
        /\ clock.round = seq_clock.round
        /\ clock.aggregator = seq_clock.aggregator
        /\ clock.panicked = seq_clock.panicked

\* a batch of at least two refs moved the round (a jump followed by another
\* vote at the new round) and the one-by-one clock has taken all of it
C8_Witness ==
    /\ seq_pending = <<>>
    /\ ev.op = "add_blocks"
    /\ ev.ret.some
    /\ Cardinality(clock.aggregator.votes) >= 2
    /\ seq_clock.round = clock.round

\* C9: a further ref of an author already counted at the current round
\* changes neither the round nor the accumulated stake.
C9_CountedAuthorChangesNothing ==
    [][(/\ ev'.op = "add_block"
        /\ ev'.block.round = clock.round
        /\ ev'.block.author \in clock.aggregator.votes) =>
         /\ clock'.round = clock.round
         /\ clock'.aggregator.stake = clock.aggregator.stake]_vars

\* C10: with 4 authorities of equal stake the clock is at round r until refs
\* of round r from 3 distinct authors have been taken, and the third one
\* makes it r + 1.
C10_ThreeOfFourAdvance ==
    [][(/\ NumAuthorities = 4
        /\ \A a \in Authorities : committee.stake[a] = committee.stake[0]
        /\ ev'.op = "add_block"
        /\ ev'.block.round = clock.round) =>
         IF Cardinality(clock.aggregator.votes \cup {ev'.block.author}) >= 3
         THEN IsNextRound(clock.round, clock'.round)
         ELSE clock'.round = clock.round]_vars

\* C11 (the clock advances whenever a quorum is observed): in every reachable
\* state the stake of the authors the aggregator holds for the current round
\* is strictly below the quorum threshold.
C11_AggregatorBelowQuorum ==
    StakeOf(clock.aggregator.votes) < committee.quorum_threshold

(***************************************************************************)
(* Claims about blocks and block references                                *)
(***************************************************************************)
\* the block with the cell of its digest empty
WithoutCell(B) == [B EXCEPT !.v1.digest = EmptyCell]

\* C12 (block digest definition): the digest returned for a block is the hash
\* of the serialization of the block, version tag included.
C12_DigestIsHashOfSerializedBlock ==
    bev.ret.set => bev.ret.value = HashOf(serialize_Block(WithoutCell(blk)))

\* the digest returned for a block is the hash of the serialization of its
\* BlockV1, which has no version tag
C12_DigestIsHashOfSerializedV1 ==
    bev.ret.set => bev.ret.value = HashOf(serialize_BlockV1(WithoutCell(blk).v1))

\* C13 (digest round-trip): whether or not the digest of a block is memoized,
\* its serialized bytes are the same and hold no digest, the block
\* deserialized from them has the digest of the block, and repeated calls of
\* digest() return the same value.
C13_DigestRoundTrip ==
    /\ serialize_Block(blk) = serialize_Block(WithoutCell(blk))
    /\ wire # NoBytes => wire = serialize_Block(WithoutCell(blk))
    /\ decoded.some =>
          /\ ~WithoutCell(decoded.block).v1.digest.set
          /\ WithoutCell(decoded.block) = WithoutCell(blk)
          /\ Block_digest(decoded.block) = Block_digest(blk)
    /\ bev.dret.set => bev.dret.value = Block_digest(blk)
    /\ bev.prev.set => bev.ret.value = bev.prev.value

\* a block with an ancestor whose digest was memoized before it was serialized
\* and called for again after, and whose deserialized copy gave its digest
C13_Witness ==
    /\ blk.v1.digest.set
    /\ blk.v1.ancestors # <<>>
    /\ wire # NoBytes
    /\ decoded.some
    /\ bev.prev.set
    /\ bev.dret.set
    /\ bev.dret.value = bev.ret.value

\* digest1 < digest2 bytewise
DigestLess(d1, d2) ==
    LET x == DigestBytes(d1)
        y == DigestBytes(d2)
    IN \E i \in 1..DIGEST_LENGTH :
          /\ x[i] < y[i]
          /\ \A j \in 1..(i - 1) : x[j] = y[j]

\* ref1 < ref2 in the lexicographic order of (round, author, digest)
LexLess(ref1, ref2) ==
    \/ ref1.round < ref2.round
    \/ ref1.round = ref2.round /\ ref1.author < ref2.author
    \/ ref1.round = ref2.round /\ ref1.author = ref2.author
          /\ DigestLess(ref1.digest, ref2.digest)

\* C14 (order of BlockRef): ref1 < ref2 iff ref1 is below ref2
\* lexicographically by (round, author, digest), the digests compared
\* bytewise; two refs are equal iff their three components are equal; the
\* order is total.
C14_BlockRefOrder ==
    cmp_ev.op = "cmp" =>
        LET ref1 == cmp_ev.ref1
            ref2 == cmp_ev.ref2
        IN /\ (cmp_ev.ord = "Less") <=> LexLess(ref1, ref2)
           /\ (cmp_ev.ord = "Greater") <=> LexLess(ref2, ref1)
           /\ (cmp_ev.ord = "Equal") <=> cmp_ev.eq
           /\ cmp_ev.eq <=> (ref1.round = ref2.round /\ ref1.author = ref2.author
                               /\ ref1.digest = ref2.digest)

\* the round decides against the author: the ref of the lower round has the
\* higher author and is the lesser
C14_Witness ==
    /\ cmp_ev.op = "cmp"
    /\ cmp_ev.ref1.round < cmp_ev.ref2.round
    /\ cmp_ev.ref1.author > cmp_ev.ref2.author
    /\ cmp_ev.ord = "Less"

(***************************************************************************)
(* Claims about the bridge action executor                                 *)
(***************************************************************************)
\* this step is the execution loop handling the result of a submission
Handled == exec.pc = "await" /\ exec'.pc # "await"

\* C2 (executor WAL exactness): whenever the execution loop has handled the
\* result of a certificate's submission, the action's digest is absent from
\* the pending-action store if and only if the result was effects with
\* status Success, and no other digest has been removed.
C2_WalExactness ==
    [][Handled =>
          /\ (exec.certificate \notin store') <=> (xev'.outcome = "Success")
          /\ store' \ {exec.certificate} = store \ {exec.certificate}]_vars

\* the same with the digest pending before the result is handled: the store
\* loses the digest on Success and is unchanged on every other outcome
C2_WalExactnessOfPending ==
    [][Handled /\ exec.certificate \in store =>
          store' = IF xev'.outcome = "Success"
                   THEN store \ {exec.certificate}
                   ELSE store]_vars

\* C3 (exactly-once on-chain effect): for every bridge action at most one
\* transaction is executed on chain with Success.
C3_AtMostOneSuccess == \A a \in Actions : onchain[a] <= 1

\* at most one Success per call of submit_to_executor
C3_AtMostOneSuccessPerSubmit ==
    onchain["a1"] + onchain["a2"] <= submits

\* this step is the execution loop receiving a certificate and submitting the
\* transaction it builds for it
Submitted == exec.pc = "recv" /\ exec'.pc = "await"

\* C15 (gas refresh from effects): after every transaction for which the chain
\* client returned effects, Success or Failure, the executor's gas reference
\* is the one reported in the effects; it stays so until the next result is
\* handled, and the next transaction is built from it.
C15_GasRefreshFromEffects ==
    [][/\ Handled /\ xev'.outcome \in {"Success", "Failure"} /\ exec'.pc # "aborted" =>
             gas_object_ref' = xev'.effects.gas_object.reference
       /\ ~Handled => gas_object_ref' = gas_object_ref
       /\ Submitted => exec'.tx = build_transaction(gas_object_ref)]_vars

\* effects with status Failure moved the gas reference and the next
\* transaction is built from the reference they reported
C15_Witness ==
    /\ xev.outcome = "Failure"
    /\ xev.effects.gas_object.reference # xev.gas_before
    /\ exec.pc = "await"
    /\ exec.tx = build_transaction(xev.effects.gas_object.reference)

\* a detached task t leaves the set of retry tasks: its send was made
RetrySent(t) == BagIn(t, retry_tasks) /\ retry_tasks' = retry_tasks (-) SetToBag({t})

RetryTask(certificate, delay) == [certificate |-> certificate, delay_ms |-> delay]

\* C16 (stale-gas recovery): when the submission returns StaleGasData and the
\* looked-up gas object is the signer's, the gas reference becomes the one the
\* lookup of the gas object returns, the action stays in the store, and one
\* task is spawned that sleeps 500 ms and then sends the same certificate to
\* the execution queue; the refreshed reference gives a transaction other
\* than the stale one, and a Success handled afterwards removes the action.
C16_StaleGasRecovery ==
    [][/\ Handled /\ xev'.outcome = "StaleGasData" /\ exec'.pc # "aborted" =>
           /\ gas_object_ref' = get_gas_object_ref_and_owner(chain').obj_ref
           /\ store' = store
           /\ retry_tasks' = retry_tasks (+)
                                 SetToBag({RetryTask(exec.certificate, StaleGasDelayMs)})
           /\ execution_queue' = execution_queue
           /\ build_transaction(gas_object_ref') # exec.tx
       /\ \A t \in BagToSet(retry_tasks) :
              RetrySent(t) /\ exec.pc # "aborted" =>
                  execution_queue' = Append(execution_queue, t.certificate)
       /\ Handled /\ xev'.outcome = "Success" => exec.certificate \notin store']_vars

\* the certificate that met stale gas data is in the execution queue again,
\* its action is still pending and the gas reference is not the stale one
C16_Witness ==
    /\ xev.outcome = "StaleGasData"
    /\ exec.pc = "recv"
    /\ xev.certificate \in store
    /\ gas_object_ref # xev.tx.gas
    /\ retry_tasks = EmptyBag
    /\ execution_queue = <<xev.certificate>>

\* the tasks that will send the certificate of an action again
Resends(a) ==
    CopiesIn(RetryTask(a, 0), retry_tasks)
        + CopiesIn(RetryTask(a, StaleGasDelayMs), retry_tasks)

\* the copies of the certificate of an action that the execution side holds:
\* in the execution queue, in the loop, and in the detached tasks that will
\* send it again
Certificates(a) ==
    Cardinality({i \in DOMAIN execution_queue : execution_queue[i] = a})
        + (IF exec.certificate = a THEN 1 ELSE 0)
        + Resends(a)

\* C17 (no automatic retry of deterministic failures): when the chain client
\* returns effects with status Failure, or InsufficientGas, for a certificate,
\* nothing is sent to the execution queue and no task is spawned to send it:
\* the certificate is dropped, so no further transaction is submitted for it.
\* The execution side never makes a copy of a certificate: the handling of a
\* result sends nothing itself and spawns no task for another certificate,
\* and the loop's receive and the detached sends only move certificates.
C17_NoRetryOfDeterministicFailures ==
    [][/\ (Handled /\ xev'.outcome \in {"Failure", "InsufficientGas"}) =>
           /\ retry_tasks' = retry_tasks
           /\ execution_queue' = execution_queue
           /\ exec'.certificate = NoCertificate
       /\ Handled =>
           /\ execution_queue' = execution_queue
           /\ \A a \in Actions \ {exec.certificate} : Resends(a)' = Resends(a)
       /\ (~Handled /\ sign_tasks' = sign_tasks
              /\ <<execution_queue, exec, retry_tasks>>' # <<execution_queue, exec, retry_tasks>>) =>
           \A a \in Actions : Certificates(a)' <= Certificates(a)]_vars

\* a Failure was handled for the only certificate of a pending action: the
\* action is still pending and the execution side holds no certificate of it
C17_Witness ==
    /\ xev.outcome = "Failure"
    /\ exec.pc = "recv"
    /\ xev.certificate \in store
    /\ Certificates(xev.certificate) = 0
    /\ sign_tasks = EmptyBag
    /\ signing_queue = <<>>

\* C18 (gas reference unchanged on non-stale errors): when the submission
\* returns InsufficientGas or any error other than StaleGasData, the gas
\* reference after the handling is the one before it.
C18_GasUnchangedOnNonStaleErrors ==
    [][Handled /\ xev'.outcome \notin {"Success", "Failure", "StaleGasData"} =>
          gas_object_ref' = gas_object_ref]_vars

\* an error other than StaleGasData was handled while the gas object on chain
\* had another version than the executor's reference, which is kept
C18_Witness ==
    /\ xev.outcome \in {"InsufficientGas", "Other"}
    /\ exec.pc = "recv"
    /\ gas_object_ref = xev.gas_before
    /\ get_gas_object_ref_and_owner(chain).obj_ref # gas_object_ref

\* C19 (transient execution errors are retried): when the submission returns
\* an error other than StaleGasData and InsufficientGas, a task is spawned
\* that sends the same certificate to the execution queue with no delay; as
\* long as the execution loop keeps running, a certificate held by such a task
\* is eventually received by the loop and submitted again.
C19_TransientErrorsRetried ==
    /\ [][Handled /\ xev'.outcome = "Other" =>
              /\ retry_tasks' = retry_tasks (+) SetToBag({RetryTask(exec.certificate, 0)})
              /\ execution_queue' = execution_queue
              /\ exec'.pc = "recv"]_vars
    /\ \A a \in Actions :
           BagIn(RetryTask(a, 0), retry_tasks) ~>
               (exec.pc = "aborted" \/ (exec.pc = "await" /\ exec.certificate = a))

\* the only certificate there is met another error and is submitted again
C19_Witness ==
    /\ submits = 1
    /\ xev.outcome = "Other"
    /\ exec.pc = "await"
    /\ exec.certificate = xev.certificate
    /\ retry_tasks = EmptyBag

\* the gas object that the handled result reports is not the signer's: the
\* one in the effects, or the one the lookup after StaleGasData returns
ForeignGasObject ==
    \/ /\ xev'.outcome \in {"Success", "Failure"}
       /\ xev'.effects.gas_object.owner # sui_address
    \/ /\ xev'.outcome = "StaleGasData"
       /\ get_gas_object_ref_and_owner(chain').owner # sui_address

ReportedReference ==
    IF xev'.outcome = "StaleGasData"
    THEN get_gas_object_ref_and_owner(chain').obj_ref
    ELSE xev'.effects.gas_object.reference

\* C20 (gas ownership violation is fatal): when the gas object reported by the
\* effects (Success or Failure) or by the lookup after StaleGasData is not
\* owned by the signer, the execution loop panics and keeps the reference it
\* had, which is not the reported one; once it has panicked it stays so, its
\* reference stays as it is and no transaction is executed on chain any more.
C20_GasOwnershipViolationFatal ==
    [][/\ Handled /\ ForeignGasObject =>
           /\ exec'.pc = "aborted"
           /\ gas_object_ref' = gas_object_ref
           /\ gas_object_ref' # ReportedReference
           /\ retry_tasks' = retry_tasks
       /\ exec.pc = "aborted" =>
           /\ exec' = exec
           /\ gas_object_ref' = gas_object_ref
           /\ chain'.status = chain.status
           /\ onchain' = onchain
           /\ xev' = xev]_vars

\* the lookup after StaleGasData found the gas object with another owner; the
\* loop has panicked with a certificate left in the execution queue
C20_Witness ==
    /\ exec.pc = "aborted"
    /\ xev.outcome = "StaleGasData"
    /\ get_gas_object_ref_and_owner(chain).owner # sui_address
    /\ gas_object_ref = xev.gas_before
    /\ execution_queue # <<>>

\* C21 (gas monotonicity): after every transaction that returned effects the
\* version of the executor's gas reference is not less than the version it
\* held before that transaction; no other step lowers it either.
C21_GasMonotonicity ==
    [][/\ (Handled /\ xev'.outcome \in {"Success", "Failure"}) =>
              gas_object_ref' >= xev'.gas_before
       /\ gas_object_ref' >= gas_object_ref]_vars

\* a second transaction returned effects and the reference went up again
C21_Witness ==
    /\ xev.outcome \in {"Success", "Failure"}
    /\ exec.pc = "recv"
    /\ xev.gas_before > 0
    /\ gas_object_ref > xev.gas_before

\* C22 (signing backoff schedule): a request_signature task that sleeps after
\* a failed collection at attempt k sleeps 100 * 2^k milliseconds.
C22_BackoffSchedule ==
    \A t \in BagToSet(sign_tasks) :
        t.pc = "sleep" => t.delay_ms = BaseDelayMs * (2 ^ t.attempt_times)

\* the wrappers and tasks of the signing side: one for every submission that
\* is still being signed
Signings == Len(signing_queue) + BagCardinality(sign_tasks)

\* a request_signature task t got Err from the authority aggregator
SignatureFailed(t) ==
    /\ BagIn(t, sign_tasks)
    /\ t.pc = "request"
    /\ request_committee_signatures(sigs, t.action) = "Err"
    /\ CopiesIn(t, sign_tasks') = CopiesIn(t, sign_tasks) - 1

\* a sleeping request_signature task t woke up and made its send
SignResent(t) ==
    /\ BagIn(t, sign_tasks)
    /\ t.pc = "sleep"
    /\ CopiesIn(t, sign_tasks') = CopiesIn(t, sign_tasks) - 1

\* C23 (bounded signing attempts): submit_to_executor enqueues the action with
\* attempt_times 0; a failed collection at attempt_times < 15 sends the action
\* to the signing queue once more, with attempt_times + 1, after its sleep; a
\* failed collection at attempt_times >= 15 drops it. attempt_times never
\* exceeds 15, and the signing side holds at most one wrapper or task for
\* every submission, so the aggregator is asked at most 16 times for it.
C23_BoundedSigningAttempts ==
    [][/\ submits' # submits =>
           /\ signing_queue' = Append(signing_queue,
                                      BridgeActionExecutionWrapper(
                                          signing_queue'[Len(signing_queue')].action, 0))
           /\ Signings' = Signings + 1
       /\ (submits' = submits
              /\ <<signing_queue, sign_tasks>>' # <<signing_queue, sign_tasks>>) =>
           Signings' <= Signings
       /\ sign_tasks' # sign_tasks =>
           \A t \in BagToSet(sign_tasks) :
              /\ (SignatureFailed(t) /\ t.attempt_times < MaxAttempts) =>
                     /\ sign_tasks' = (sign_tasks (-) SetToBag({t}))
                                          (+) SetToBag({[t EXCEPT !.pc = "sleep",
                                                          !.delay_ms = delay_ms(t.attempt_times)]})
                     /\ signing_queue' = signing_queue
              /\ (SignatureFailed(t) /\ t.attempt_times >= MaxAttempts) =>
                     /\ sign_tasks' = sign_tasks (-) SetToBag({t})
                     /\ signing_queue' = signing_queue
              /\ SignResent(t) =>
                     /\ sign_tasks' = sign_tasks (-) SetToBag({t})
                     /\ signing_queue' = Append(signing_queue,
                            BridgeActionExecutionWrapper(t.action, t.attempt_times + 1))
       /\ \A i \in DOMAIN signing_queue' : signing_queue'[i].attempt_times \in 0..MaxAttempts
       /\ \A t \in BagToSet(sign_tasks') : t.attempt_times \in 0..MaxAttempts]_vars

\* the action was dropped after the failure at attempt 15: its signatures are
\* still short, it is pending, and the signing side holds nothing
C23_Witness ==
    /\ submits = 1
    /\ "a1" \in store
    /\ ~sigs["a1"]
    /\ signing_queue = <<>>
    /\ sign_tasks = EmptyBag

\* nothing is in flight: the queues are empty, no task is left and the
\* execution loop is not in the middle of a submission
Quiescent ==
    /\ signing_queue = <<>>
    /\ sign_tasks = EmptyBag
    /\ execution_queue = <<>>
    /\ retry_tasks = EmptyBag
    /\ exec.pc # "await"

\* C24 (cancellation by channel close): once the sender returned by run() is
\* dropped and all work in flight has finished, the signing loop and the
\* execution loop both see their queue closed and end.
C24_CancellationByChannelClose ==
    (~loops.sender /\ Quiescent) ~> (loops.signing = "done" /\ exec.pc \in {"done", "aborted"})

\* while its loop runs, each queue has a sender that is alive: the loop's own
C24_LoopsHoldTheirSenders ==
    /\ loops.signing = "running"
    /\ exec.pc \in {"recv", "await"} => ExecutionSenders > 0
    /\ SigningSenders > 0
    /\ exec.pc # "done"

\* C25 (sequential execution): one transaction at most is in flight with the
\* chain client. A certificate leaves the execution queue only when the loop
\* is at its recv, and it becomes the submission in flight; while a submission
\* is in flight the loop holds it and its gas reference as they are; the step
\* that takes the result handles it whole (removal from the store, gas
\* refresh) and receives nothing, and only such a step executes a transaction
\* on chain.
C25_SequentialExecution ==
    [][/\ Len(execution_queue') < Len(execution_queue) =>
              /\ exec.pc = "recv"
              /\ exec' = [pc |-> "await", certificate |-> Head(execution_queue),
                          tx |-> build_transaction(gas_object_ref)]
              /\ execution_queue' = Tail(execution_queue)
       /\ (exec.pc = "await" /\ ~Handled) =>
              /\ exec' = exec
              /\ gas_object_ref' = gas_object_ref
              /\ chain'.status = chain.status
       /\ Handled =>
              /\ exec' \in {[pc |-> p, certificate |-> NoCertificate, tx |-> NoTransaction] :
                               p \in {"recv", "aborted"}}
              /\ execution_queue' = execution_queue
       /\ onchain' # onchain => Handled]_vars

\* a certificate waits in the execution queue while a submission is in flight
C25_Witness ==
    /\ exec.pc = "await"
    /\ execution_queue # <<>>
    /\ exec.tx = build_transaction(gas_object_ref)

\* C26 (no self-deadlock on re-enqueue): the execution loop never waits on a
\* send into its own queue. The result of a submission can be handled
\* whatever the queue holds; when StaleGasData or another retried error is
\* handled, the queue being full or not, the loop goes back to recv, the queue
\* is left as it is and the send is left to a detached task. A submission in
\* flight is handled in the end, and no detached task waits for ever: there
\* is no such task again and again, or such a task makes its send again and
\* again.
C26_NoSelfDeadlock ==
    /\ [](exec.pc = "await" => ENABLED ExecHandle)
    /\ [][(Handled /\ exec'.pc # "aborted" /\ xev'.outcome \in {"StaleGasData", "Other"}) =>
              /\ exec'.pc = "recv"
              /\ execution_queue' = execution_queue
              /\ \E d \in {0, StaleGasDelayMs} :
                     retry_tasks' = retry_tasks (+) SetToBag({RetryTask(exec.certificate, d)})]_vars
    /\ (exec.pc = "await") ~> (exec.pc # "await")
    /\ \A t \in RetryTasks :
           \/ []<>(~BagIn(t, retry_tasks))
           \/ []<><<RetrySent(t)>>_vars

\* an error that is retried was handled while the execution queue was full:
\* the loop is back at its recv and the detached task waits for room
C26_Witness ==
    /\ xev.outcome \in {"StaleGasData", "Other"}
    /\ exec.pc = "recv"
    /\ BagIn(RetryTask(xev.certificate, 0), retry_tasks)
           \/ BagIn(RetryTask(xev.certificate, StaleGasDelayMs), retry_tasks)
    /\ Len(execution_queue) = CHANNEL_SIZE

\* a request_signature task t that holds the certificate made its send
CertificateSent(t) ==
    /\ BagIn(t, sign_tasks)
    /\ t.pc = "send_certificate"
    /\ sign_tasks' = sign_tasks (-) SetToBag({t})

\* C27 (signing hand-off): a certificate of an action comes to the execution
\* side only from a request_signature task that got Ok from the authority
\* aggregator for that action, one certificate for every Ok (while the
\* execution loop is there to receive it); while the signatures for an action
\* are short nothing of it is on the execution side and no transaction was
\* submitted for it; once the signatures are sufficient, an action that the
\* signing side holds has its certificate handed to execution in the end.
C27_SigningHandOff ==
    /\ [][/\ \A a \in Actions :
                Certificates(a)' > Certificates(a) =>
                    /\ sigs[a]
                    /\ Certificates(a)' = Certificates(a) + 1
                    /\ \E t \in BagToSet(sign_tasks) : t.action = a /\ CertificateSent(t)
          /\ \A t \in BagToSet(sign_tasks') :
                (t.pc = "send_certificate"
                     /\ CopiesIn(t, sign_tasks') > CopiesIn(t, sign_tasks)) =>
                    /\ request_committee_signatures(sigs, t.action) = "Ok"
                    /\ sign_tasks' = (sign_tasks (-) SetToBag({[t EXCEPT !.pc = "request"]}))
                                         (+) SetToBag({t})
          /\ \A t \in BagToSet(sign_tasks) :
                (CertificateSent(t) /\ exec.pc \in {"recv", "await"}) =>
                    execution_queue' = Append(execution_queue, t.action)]_vars
    /\ [](\A a \in Actions :
             ~sigs[a] => /\ Certificates(a) = 0
                         /\ onchain[a] = 0
                         /\ xev.certificate # a)
    /\ \A a \in Actions :
           (sigs[a] /\ SigningOf(a) > 0) ~> (Certificates(a) > 0 \/ exec.pc = "aborted")

\* the signatures for the action were short at an earlier attempt; now the
\* authority aggregator has answered Ok and the task holds the certificate
\* that it will send, nothing of the action being on the execution side yet
C27_Witness ==
    /\ sigs["a1"]
    /\ Certificates("a1") = 0
    /\ onchain["a1"] = 0
    /\ \E t \in BagToSet(sign_tasks) :
           t.action = "a1" /\ t.pc = "send_certificate" /\ t.attempt_times > 0

\* C28 (the signing pipeline leaves the WAL and the gas reference alone): a
\* step of the signing side (the signing loop's recv, a request to the
\* authority aggregator, a send of a certificate or of a wrapper) changes
\* neither the store, nor the gas reference, nor the submission in flight,
\* nor the chain; an action whose signatures are short, whether its
\* collection has failed, is being retried or was dropped, stays pending,
\* and no transaction is submitted for it.
C28_SigningFrame ==
    [][/\ (submits' = submits
              /\ <<signing_queue, sign_tasks>>' # <<signing_queue, sign_tasks>>) =>
           /\ store' = store
           /\ gas_object_ref' = gas_object_ref
           /\ exec' = exec
           /\ chain' = chain
           /\ onchain' = onchain
       /\ \A a \in Actions : (a \in store /\ ~sigs'[a]) => a \in store'
       /\ \A a \in Actions : (~sigs'[a] /\ a \notin store') => SigningOf(a)' = 0
       /\ \A a \in Actions : (Submitted /\ exec'.certificate = a) => sigs[a]]_vars

\* the collection of signatures for the action has failed fifteen times and
\* is being retried; the action is pending and nothing was submitted for it
C28_Witness ==
    /\ "a1" \in store
    /\ ~sigs["a1"]
    /\ onchain["a1"] = 0
    /\ \E t \in BagToSet(sign_tasks) :
           t.action = "a1" /\ t.pc = "sleep" /\ t.attempt_times = MaxAttempts - 1

\* the ref of this add_block call makes the authors counted for the current
\* round reach the quorum threshold
ReachesQuorum ==
    /\ ev'.op = "add_block"
    /\ ev'.block.round = clock.round
    /\ StakeOf(clock.aggregator.votes \cup {ev'.block.author}) >= committee.quorum_threshold

C30_RoundArithmeticInRange ==
    [][ReachesQuorum =>
          /\ ~clock'.panicked
          /\ clock'.round > clock.round
          /\ IsNextRound(clock.round, clock'.round)]_vars

\* the same below the last round of u32
C30_RoundArithmeticBelowMax ==
    [][(ReachesQuorum /\ clock.round < RoundMax) =>
          /\ ~clock'.panicked
          /\ clock'.round > clock.round
          /\ IsNextRound(clock.round, clock'.round)]_vars

\* the handled result is effects whose gas object is not owned by the signer
ForeignGasInEffects ==
    /\ Handled
    /\ xev'.outcome \in {"Success", "Failure"}
    /\ xev'.effects.gas_object.owner # sui_address

\* C31 (WAL removal precedes the ownership check): when the effects report
\* Success and a gas object that the signer no longer owns, the execution loop
\* aborts with the action's digest removed from the pending-action store, and
\* nothing else removed; when they report Failure with the same violation it
\* aborts with the store as it was, so a digest that was pending is still
\* there.
C31_WalRemovalBeforeOwnershipCheck ==
    [][ForeignGasInEffects =>
          /\ exec'.pc = "aborted"
          /\ xev'.outcome = "Success" =>
                /\ exec.certificate \notin store'
                /\ store' = store \ {exec.certificate}
          /\ xev'.outcome = "Failure" =>
                /\ store' = store
                /\ exec.certificate \in store => exec.certificate \in store']_vars

\* the loop has aborted on Success effects whose gas object has another owner:
\* the transaction was executed and the digest is gone from the store
C31_Witness ==
    /\ exec.pc = "aborted"
    /\ xev.outcome = "Success"
    /\ xev.effects.gas_object.owner # sui_address
    /\ onchain[xev.certificate] = 1
    /\ xev.certificate \notin store

\* the loop has aborted on Failure effects whose gas object has another owner
\* and the digest is pending
C31_WitnessFailure ==
    /\ exec.pc = "aborted"
    /\ xev.outcome = "Failure"
    /\ xev.effects.gas_object.owner # sui_address
    /\ xev.certificate \in store

\* this step hands the loop a transient answer for the submission in flight,
\* and the loop goes back to its recv with the send of the certificate spawned
RetriedTransient ==
    /\ ExecHandle
    /\ xev'.outcome \in {"StaleGasData", "Other"}
    /\ exec'.pc = "recv"
    /\ \E d \in {0, StaleGasDelayMs} :
           retry_tasks' = retry_tasks (+) SetToBag({RetryTask(exec.certificate, d)})

\* C32 (execution-side retries are unbounded): while the execution loop runs,
\* the execution side loses a copy of a certificate only when the loop handles
\* effects (Success or Failure) or InsufficientGas for it, one copy at a time;
\* a StaleGasData or other error leaves the number of copies as it was, with
\* one more task that will send the certificate. The retry task carries the
\* certificate and its delay and nothing that counts attempts: whenever a
\* submission is in flight, whatever came before, a transient answer can come
\* and is retried, and a certificate held by a retry task is submitted again
\* unless the loop has panicked.
C32_UnboundedExecutionRetries ==
    /\ [][/\ \A a \in Actions :
                 (/\ Certificates(a)' < Certificates(a)
                  /\ exec.pc \notin {"aborted", "done"}
                  /\ exec'.pc # "aborted") =>
                     /\ Handled
                     /\ exec.certificate = a
                     /\ xev'.outcome \in {"Success", "Failure", "InsufficientGas"}
                     /\ Certificates(a)' = Certificates(a) - 1
          /\ (Handled /\ xev'.outcome \in {"StaleGasData", "Other"} /\ exec'.pc # "aborted") =>
                 \A a \in Actions : a = exec.certificate =>
                     /\ Certificates(a)' = Certificates(a)
                     /\ Resends(a)' = Resends(a) + 1
                     /\ a \in store <=> a \in store']_vars
    /\ [](exec.pc = "await" => ENABLED RetriedTransient)
    /\ \A t \in RetryTasks :
           BagIn(t, retry_tasks) ~>
               (exec.pc = "aborted" \/ (exec.pc = "await" /\ exec.certificate = t.certificate))

\* the only certificate there is has been submitted three times: stale gas
\* data made the loop refresh its reference, the transaction built from the
\* refreshed reference met another error, and the certificate is in flight
\* again while nothing has been executed on chain
C32_Witness ==
    /\ submits = 1
    /\ xev.outcome = "Other"
    /\ xev.tx # NoTransaction
    /\ xev.tx.gas > 0
    /\ \A v \in DOMAIN chain.status : chain.status[v] = "none"
    /\ exec.pc = "await"
    /\ exec.certificate = xev.certificate

\* the opposite of "without limit": from some point on no transient answer is
\* retried any more. It does not hold: the loop may retry for ever.
C32_RetriesComeToAnEnd ==
    <>[][~(Handled /\ xev'.outcome \in {"StaleGasData", "Other"})]_vars

\* the loop dequeues the head of the execution queue while task t still
\* waits to send its certificate
DequeuesAhead(t) ==
    /\ ExecRecv
    /\ exec'.certificate = Head(execution_queue)
    /\ BagIn(t, retry_tasks')

\* C33 (a retried certificate may be overtaken): a certificate held by a
\* detached task, for its 500 ms after stale gas data or for its re-enqueue
\* after another error, does not hold up the execution loop: the loop at its
\* recv takes the head of a queue that is not empty while the task still
\* waits, and the task's send puts its certificate behind those queued by
\* then. Certificates are taken in queue order, and each transaction is built
\* from the current gas reference, which after stale gas data is the one the
\* lookup of the gas object returned and stays so until the next result.
C33_RetriedCertificateOvertaken ==
    /\ [](\A t \in RetryTasks :
              (BagIn(t, retry_tasks) /\ exec.pc = "recv" /\ execution_queue # <<>>) =>
                  ENABLED DequeuesAhead(t))
    /\ [][/\ (Handled /\ xev'.outcome \in {"StaleGasData", "Other"} /\ exec'.pc # "aborted") =>
                 /\ exec'.pc = "recv"
                 /\ execution_queue' = execution_queue
          /\ (Handled /\ xev'.outcome = "StaleGasData" /\ exec'.pc # "aborted") =>
                 gas_object_ref' = get_gas_object_ref_and_owner(chain').obj_ref
          /\ ~Handled => gas_object_ref' = gas_object_ref
          /\ Submitted =>
                 /\ exec'.certificate = Head(execution_queue)
                 /\ execution_queue' = Tail(execution_queue)
                 /\ exec'.tx = build_transaction(gas_object_ref)
                 /\ retry_tasks' = retry_tasks
          /\ \A t \in BagToSet(retry_tasks) :
                 (RetrySent(t) /\ exec.pc \notin {"aborted", "done"}) =>
                     execution_queue' = Append(execution_queue, t.certificate)]_vars

\* a1 met stale gas data and its task still waits to send it; a2, which
\* entered the queue after a1 had been taken from it, was submitted with the
\* reference that the lookup returned and has been handled with Success
C33_Witness ==
    /\ BagIn(RetryTask("a1", StaleGasDelayMs), retry_tasks)
    /\ "a1" \in store
    /\ xev.certificate = "a2"
    /\ xev.outcome = "Success"
    /\ xev.tx.gas > 0
    /\ xev.tx.gas = xev.gas_before
    /\ onchain = [a \in Actions |-> IF a = "a2" THEN 1 ELSE 0]
    /\ \A v \in DOMAIN chain.status :
           chain.status[v] = IF v = xev.tx.gas THEN "Success" ELSE "none"
====
